---- MODULE Spec2Model ----
(***************************************************************************)
(* Azul audit forwarder (azul_audit_forwarder/client.py): the poll-buffer- *)
(* forward cycle, its checkpoint file, its health flag and the timers      *)
(* that start the cycles.                                                  *)
(*                                                                         *)
(* Every timer callback runs on a thread of its own (threading.Timer), so  *)
(* a cycle is a sequence of steps, one per blocking call or shared-state   *)
(* access, and the steps of different cycles interleave.                   *)
(***************************************************************************)
EXTENDS Integers, Sequences, FiniteSets, TLC

(***************************************************************************)
(* Bounds of the model.                                                    *)
(***************************************************************************)
\* number of poll_and_send_logs timer callbacks that are started
MaxCycles == 2
\* wall-clock time (epoch seconds) at which main() runs
StartTime == 10000

(***************************************************************************)
(* Program constants.                                                      *)
(***************************************************************************)
\* client.py:214  def send_logs_after_interval(interval=5)
DefaultInterval == 5
\* settings.py:48  send_interval: int = 5
send_interval == 5
\* client.py:239,243  start_epoch + (5 * 60)
WindowMinutes == 5
\* client.py:241  get_epoch_mins_ago(1)
MarginMinutes == 1
\* client.py:66,74  get_epoch_mins_ago(60)
LookbackMinutes == 60
\* client.py:58  minutes * 60
SecondsPerMinute == 60

VARIABLES
    now,        \* time.time(), whole seconds
    timers,     \* pending threading.Timer objects: [due, fn]
    spawned,    \* number of poll_and_send_logs callbacks started so far
    cyc,        \* cyc[t]: locals and position of the t-th poll_and_send_logs call
    healthy,    \* client.healthy
    output,     \* client.output (io.StringIO), as the sequence of its lines
    last_sent_file,   \* the file settings.st.last_sent_file
    enable_cloudwatch_forwarding,  \* settings.st.enable_cloudwatch_forwarding as client.py reads it
    target_endpoint,  \* settings.st.target_endpoint
    send_logs_to,     \* settings.st.send_logs_to
    healthz,    \* the last answer of GET /healthz
    loki,       \* the entries held by the Loki backend
    returned,   \* history: [e, end] for every entry a query_range response carried
    delivered   \* history: entries handed to a sink in a delivery that succeeded

vars == <<now, timers, spawned, cyc, healthy, output, last_sent_file,
          enable_cloudwatch_forwarding, target_endpoint, send_logs_to, healthz,
          loki, returned, delivered>>

Cycles == 1..MaxCycles

(***************************************************************************)
(* The checkpoint file.                                                    *)
(***************************************************************************)
NoFile == [kind |-> "absent", val |-> 0]
EmptyFile == [kind |-> "empty", val |-> 0]
FileWith(ts) == [kind |-> "int", val |-> ts]
\* the file holds text that is no integer
GarbageFile == [kind |-> "garbage", val |-> 0]
\* the file is there, open(..., "r") raises OSError
UnreadableFile == [kind |-> "unreadable", val |-> 0]

\* get_epoch_mins_ago(minutes) at clock reading t
get_epoch_mins_ago(t, minutes) == t - minutes * SecondsPerMinute

\* read_last_sent_ts() on file f: the exception that leaves it, if any.
\* client.py:68 open() is outside any try; client.py:71 int() of text that is
\* no integer raises ValueError.
read_last_sent_ts_raises(f) ==
    CASE f.kind = "unreadable" -> "OSError"
      [] f.kind = "garbage" -> "ValueError"
      [] OTHER -> "none"

\* read_last_sent_ts() on file f at clock reading t: the value it returns,
\* when it returns
read_last_sent_ts(f, t) ==
    IF f.kind = "int" THEN f.val ELSE get_epoch_mins_ago(t, LookbackMinutes)

\* update_last_seen_ts(new_ts) on file f.  io is what the file system does:
\*   "written"    open and write succeed
\*   "open_error" open(..., "w") raises OSError: caught, file untouched
\*   "truncated"  open(..., "w") truncated the file, the data never reached it
\*                (OSError at write, caught; or at the implicit close)
WriteOutcomes == {"written", "open_error", "truncated"}
update_last_seen_ts(f, new_ts, io) ==
    CASE io = "written" -> FileWith(new_ts)
      [] io = "open_error" -> f
      [] OTHER -> EmptyFile

(***************************************************************************)
(* The Loki backend: a query_range over [s, e) answers with the entries    *)
(* whose time lies in the range, oldest first.                             *)
(***************************************************************************)
\* a line has no "time=" token (client.py:91-94)
NoTime == 0

\* A log line (value[1] of an entry):
\*   ts     the time Loki holds the entry under
\*   blank  the line is empty or white space only
\*   pad    the line begins or ends with white space
\*   time   the seconds its "time=" token states, or NoTime
Line(ts, blank, pad, time) == [ts |-> ts, blank |-> blank, pad |-> pad, time |-> time]

\* a line without surrounding white space whose "time=" token is its ts
Entry(ts, blank) == Line(ts, blank, FALSE, IF blank THEN NoTime ELSE ts)

InRange(store, s, e) == {x \in store : s <= x.ts /\ x.ts < e}

RECURSIVE SortedLines(_)
SortedLines(S) ==
    IF S = {} THEN <<>>
    ELSE LET m == CHOOSE x \in S : \A y \in S : x.ts <= y.ts
         IN <<m>> \o SortedLines(S \ {m})

\* the JSON body of a 200 response
Response(store, s, e) ==
    [totalEntriesReturned |-> Cardinality(InRange(store, s, e)),
     values |-> SortedLines(InRange(store, s, e))]

\* process_logs(content): the buffer after it
process_logs(buf, content) ==
    IF content.totalEntriesReturned <= 0 THEN buf ELSE buf \o content.values

(***************************************************************************)
(* Initial state: main() has called send_logs_after_interval(send_interval)*)
(***************************************************************************)
IdleCycle ==
    [pc |-> "idle", started |-> 0, start_epoch |-> 0, end_epoch |-> 0,
     read_ts |-> 0, queries |-> 0, resp |-> "none", last_epoch |-> 0,
     fwd |-> "none", group |-> "none", calls |-> {}, processed_logs |-> <<>>,
     log_events |-> <<>>, io |-> "none", result |-> "none"]

\* Backend contents.  With the checkpoint at StartTime - 355 the first
\* sub-window is [StartTime - 355, StartTime - 55) and the second
\* [StartTime - 55, StartTime + 245).
NoEntries == {}
TwoLines == {Entry(StartTime - 200, FALSE), Entry(StartTime - 50, FALSE)}
\* Three lines of one sub-window, [StartTime - 100, StartTime + 200): a line
\* with white space around it and no "time=" token, a blank line, and a line
\* whose "time=" token is older than the time the first line falls back to.
CloudLines ==
    {Line(StartTime - 90, FALSE, TRUE, NoTime),
     Entry(StartTime - 80, TRUE),
     Line(StartTime - 70, FALSE, FALSE, StartTime - 150)}

\* The states the process starts in: the checkpoint file, the settings
\* poll_and_send_logs and send_logs read, and what the backend holds.
\* enable_cloudwatch_forwarding is no field of AuditFwdSettings
\* (settings.py:16-54), so reading it off that class raises AttributeError
\* ("unset"); "on" / "off" stand for a settings object that carries it.
\* target_endpoint is "LOG_ONLY" or anything else ("http").  send_logs_to
\* (settings.py:23) is the destination the deployment asks for.
Setup(file, ecf, target, dest, store) ==
    [file |-> file, ecf |-> ecf, target |-> target, send_logs_to |-> dest,
     loki |-> store]

InitStates ==
    {Setup(FileWith(StartTime - 355), "off", "http", "server", TwoLines),
     Setup(FileWith(StartTime - 355), "off", "http", "server", NoEntries),
     Setup(FileWith(StartTime - 355), "off", "LOG_ONLY", "log_only", TwoLines),
     Setup(FileWith(StartTime - 100), "on", "http", "cloudwatch", CloudLines),
     Setup(FileWith(StartTime - 30), "on", "http", "cloudwatch", TwoLines),
     Setup(FileWith(StartTime - 30), "off", "http", "server", TwoLines),
     Setup(NoFile, "unset", "http", "log_only", NoEntries),
     Setup(GarbageFile, "off", "http", "server", TwoLines),
     Setup(UnreadableFile, "off", "LOG_ONLY", "log_only", TwoLines)}

Init ==
    /\ now = StartTime
    /\ timers = {[due |-> StartTime + send_interval, fn |-> "poll_and_send_logs"],
                 [due |-> StartTime + send_interval, fn |-> "send_logs_after_interval"]}
    /\ spawned = 0
    /\ cyc = [t \in Cycles |-> IdleCycle]
    /\ healthy = TRUE
    /\ output = <<>>
    /\ healthz = "none"
    /\ \E i \in InitStates :
          /\ last_sent_file = i.file
          /\ enable_cloudwatch_forwarding = i.ecf
          /\ target_endpoint = i.target
          /\ send_logs_to = i.send_logs_to
          /\ loki = i.loki
    /\ returned = {}
    /\ delivered = {}

(***************************************************************************)
(* Clock and timers.                                                       *)
(***************************************************************************)
\* time passes until the next timer is due
Advance ==
    /\ timers # {}
    /\ \A tm \in timers : tm.due > now
    /\ \E tm \in timers :
          /\ \A o \in timers : tm.due <= o.due
          /\ now' = tm.due
    /\ UNCHANGED <<timers, spawned, cyc, healthy, output, last_sent_file,
                   enable_cloudwatch_forwarding, target_endpoint,
                   send_logs_to, healthz, loki,
                   returned, delivered>>

\* send_logs_after_interval(interval): two timers, both due after interval
send_logs_after_interval(tms, t, interval) ==
    tms \cup {[due |-> t + interval, fn |-> "poll_and_send_logs"],
              [due |-> t + interval, fn |-> "send_logs_after_interval"]}

\* the rescheduling timer fires: send_logs_after_interval() with its default
TimerReschedule ==
    \E tm \in timers :
       /\ tm.fn = "send_logs_after_interval"
       /\ tm.due <= now
       /\ timers' = send_logs_after_interval(timers \ {tm}, now, DefaultInterval)
       /\ UNCHANGED <<now, spawned, cyc, healthy, output, last_sent_file,
                      enable_cloudwatch_forwarding, target_endpoint,
                   send_logs_to, healthz, loki,
                      returned, delivered>>

\* the cycle timer fires: poll_and_send_logs starts on a thread of its own
TimerCycle ==
    \E tm \in timers :
       /\ tm.fn = "poll_and_send_logs"
       /\ tm.due <= now
       /\ spawned < MaxCycles
       /\ timers' = timers \ {tm}
       /\ spawned' = spawned + 1
       /\ cyc' = [cyc EXCEPT ![spawned + 1].pc = "start",
                           ![spawned + 1].started = now]
       /\ UNCHANGED <<now, healthy, output, last_sent_file,
                      enable_cloudwatch_forwarding, target_endpoint,
                   send_logs_to, healthz, loki,
                      returned, delivered>>

(***************************************************************************)
(* A cycle.  A step of a cycle runs from one blocking call (the query to   *)
(* Loki, the POST, a CloudWatch call) to the next.  The operators below    *)
(* are the pieces of code a step runs through; each states the cycle's     *)
(* record, the buffer, the checkpoint file and the delivery history after  *)
(* it, given the cycle's record c and the buffer buf before it.            *)
(***************************************************************************)
Range(q) == {q[i] : i \in 1..Len(q)}

WindowSeconds == WindowMinutes * SecondsPerMinute

\* the cycle's thread has ended: poll_and_send_logs returned ("done") or an
\* exception left it ("raised").  Its locals are gone; what is kept is the
\* time it started, whether it sent no, one or more queries (0, 1, 2), the
\* last response to them, the forwarder it called, the CloudWatch calls it
\* made, what the calls answered and how the cycle went.
Ended(how, c, result) ==
    [IdleCycle EXCEPT !.pc = how, !.started = c.started,
                      !.queries = IF c.queries > 2 THEN 2 ELSE c.queries,
                      !.resp = c.resp, !.fwd = c.fwd, !.group = c.group,
                      !.calls = c.calls, !.io = c.io, !.result = result]

\* clear_output(), client.py:208-211
clear_output(buf) == <<>>

\* send_logs(last_epoch), client.py:165-191 and 205: read the buffer; return
\* at once when it is empty, log it and write the checkpoint (LOG_ONLY), or
\* start the POST
send_logs(t, c, buf) ==
    IF Len(buf) = 0
    THEN /\ output' = clear_output(buf)
         /\ cyc' = [cyc EXCEPT ![t] = Ended("done", c, "empty")]
         /\ UNCHANGED <<last_sent_file, delivered>>
    ELSE IF target_endpoint = "LOG_ONLY"
    THEN \E io \in WriteOutcomes :
            /\ last_sent_file' = update_last_seen_ts(last_sent_file, c.last_epoch, io)
            /\ delivered' = delivered \cup Range(buf)
            /\ output' = clear_output(buf)
            /\ cyc' = [cyc EXCEPT ![t] = Ended("done", [c EXCEPT !.io = io], "logged")]
    ELSE /\ output' = buf
         /\ cyc' = [cyc EXCEPT ![t] = [c EXCEPT !.pc = "post", !.processed_logs = buf]]
         /\ UNCHANGED <<last_sent_file, delivered>>

\* send_logs_to_cloudwatch(last_epoch), client.py:105-112: the call of
\* describe_log_groups
send_logs_to_cloudwatch(t, c, buf) ==
    /\ output' = buf
    /\ cyc' = [cyc EXCEPT ![t] = [c EXCEPT !.pc = "cw_describe"]]
    /\ UNCHANGED <<last_sent_file, delivered>>

\* client.py:284  if last_epoch:
Truthy(ret, last_epoch) == ret = "int" /\ last_epoch # 0

\* poll_and_send_logs, client.py:283-289, once poll_for_logs has returned
\* ret (None or an int last_epoch)
poll_and_send_logs(t, c, ret, last_epoch, buf) ==
    IF ~Truthy(ret, last_epoch)
    THEN /\ output' = buf
         /\ cyc' = [cyc EXCEPT ![t] = Ended("done", c, "no_forward")]
         /\ UNCHANGED <<last_sent_file, delivered>>
    ELSE CASE enable_cloudwatch_forwarding = "unset" ->
                 \* AttributeError leaves poll_and_send_logs
                 /\ output' = buf
                 /\ cyc' = [cyc EXCEPT ![t] = Ended("raised", c, "AttributeError")]
                 /\ UNCHANGED <<last_sent_file, delivered>>
           [] enable_cloudwatch_forwarding = "on" ->
                 send_logs_to_cloudwatch(t,
                     [c EXCEPT !.last_epoch = last_epoch,
                               !.fwd = "send_logs_to_cloudwatch"], buf)
           [] OTHER ->
                 send_logs(t, [c EXCEPT !.last_epoch = last_epoch,
                                        !.fwd = "send_logs"], buf)

\* client.py:241: the loop condition
LoopCondition(start, t) == start < get_epoch_mins_ago(t, MarginMinutes)

\* client.py:278: what poll_for_logs returns when the loop ends
LoopExit(c) == c.end_epoch

\* client.py:241-258 and 278: test the loop condition; either send the query
\* for [start_epoch, start_epoch + 300) or return end_epoch
Loop(t, c, buf) ==
    IF LoopCondition(c.start_epoch, now)
    THEN /\ output' = buf
         /\ cyc' = [cyc EXCEPT ![t] =
                       [c EXCEPT !.pc = "get",
                                 !.end_epoch = c.start_epoch + WindowSeconds,
                                 !.queries = c.queries + 1]]
         /\ UNCHANGED <<last_sent_file, delivered>>
    ELSE poll_and_send_logs(t, c, "int", LoopExit(c), buf)

\* client.py:237-239: the thread starts poll_and_send_logs; poll_for_logs
\* reads the checkpoint, sets the initial end_epoch and enters the loop
Start(t) ==
    /\ cyc[t].pc = "start"
    /\ IF read_last_sent_ts_raises(last_sent_file) # "none"
       THEN \* the exception leaves poll_for_logs and poll_and_send_logs
            /\ cyc' = [cyc EXCEPT ![t] =
                          Ended("raised", cyc[t],
                                read_last_sent_ts_raises(last_sent_file))]
            /\ UNCHANGED <<output, last_sent_file, delivered>>
       ELSE LET start == read_last_sent_ts(last_sent_file, now)
            IN Loop(t, [cyc[t] EXCEPT !.start_epoch = start,
                                      !.read_ts = start,
                                      !.end_epoch = start + WindowSeconds], output)
    /\ UNCHANGED <<now, timers, spawned, healthy,
                   enable_cloudwatch_forwarding, target_endpoint,
                   send_logs_to, healthz, loki, returned>>

\* what httpx.get does: a 200 response, another status, or an exception
\* (connection error, timeout)
GetOutcomes == {"200", "500", "exception"}

\* client.py:259-263: the 200 branch, then the loop again
QueryOk(t, r) ==
    LET content == Response(loki, cyc[t].start_epoch, cyc[t].end_epoch)
    IN /\ healthy' = TRUE
       /\ returned' = returned \cup
             {[e |-> content.values[i], end |-> cyc[t].end_epoch] :
                 i \in 1..Len(content.values)}
       /\ Loop(t, [cyc[t] EXCEPT !.resp = r, !.start_epoch = cyc[t].end_epoch],
               process_logs(output, content))

\* QueryFailed without its "return None": the loop goes on to the next window
QueryFailed_NoReturn(t, r) ==
    /\ healthy' = FALSE
    /\ returned' = returned
    /\ Loop(t, [cyc[t] EXCEPT !.resp = r, !.start_epoch = cyc[t].end_epoch], output)

\* client.py:264-277: the non-200 branch and the except branch; poll_for_logs
\* returns None
QueryFailed(t, r) ==
    /\ healthy' = FALSE
    /\ returned' = returned
    /\ poll_and_send_logs(t, [cyc[t] EXCEPT !.resp = r], "None", 0, output)

\* client.py:256-277: the response to the query arrives
GetResponse(t) ==
    /\ cyc[t].pc = "get"
    /\ \E r \in GetOutcomes :
          IF r = "200" THEN QueryOk(t, r) ELSE QueryFailed(t, r)
    /\ UNCHANGED <<now, timers, spawned,
                   enable_cloudwatch_forwarding, target_endpoint,
                   send_logs_to, healthz, loki>>

\* what httpx.post does
PostOutcomes == {"200", "500", "exception"}

\* HealthAfterPost with a 200 marking the process healthy
HealthAfterPost_SetsHealthy(h, r) == r = "200"

\* client.py:192-203: the health flag after the POST
HealthAfterPost(h, r) == IF r = "200" THEN h ELSE FALSE

\* FileAfterPost with the checkpoint written whatever the status
FileAfterPost_AnyStatus(f, r, last_epoch, io) ==
    update_last_seen_ts(f, last_epoch, io)

\* client.py:192-203: the checkpoint file after the POST
FileAfterPost(f, r, last_epoch, io) ==
    IF r = "200" THEN update_last_seen_ts(f, last_epoch, io) ELSE f

\* client.py:185-205: the POST returns or raises; then clear_output()
PostResponse(t) ==
    /\ cyc[t].pc = "post"
    /\ \E r \in PostOutcomes, io \in WriteOutcomes :
          /\ healthy' = HealthAfterPost(healthy, r)
          /\ last_sent_file' = FileAfterPost(last_sent_file, r, cyc[t].last_epoch, io)
          /\ delivered' = IF r = "200"
                          THEN delivered \cup Range(cyc[t].processed_logs)
                          ELSE delivered
          /\ cyc' = [cyc EXCEPT ![t] =
                        Ended("done",
                              [cyc[t] EXCEPT !.io = IF r = "200" THEN io ELSE "none"],
                              IF r = "200" THEN "sent" ELSE "send_failed")]
    /\ output' = clear_output(output)
    /\ UNCHANGED <<now, timers, spawned,
                   enable_cloudwatch_forwarding, target_endpoint,
                   send_logs_to, healthz, loki, returned>>

(***************************************************************************)
(* send_logs_to_cloudwatch                                                 *)
(***************************************************************************)
\* what describe_log_groups does: the group is listed, it is not, or the call
\* raises (ClientError is caught at client.py:118, BotoCoreError is not)
GroupOutcomes == {"found", "missing", "ClientError", "BotoCoreError"}

\* what describe_log_streams / create_log_stream do: the stream is listed,
\* it is not and is created, or one of the two calls raises
StreamOutcomes == {"exists", "created", "ClientError", "BotoCoreError"}

\* the CloudWatch calls made once the log stream has been looked up.
\* create_log_stream is called only right after describe_log_streams has
\* answered (client.py:123-127), so "describe_log_streams" stands for the two.
StreamCalls == {"describe_log_groups", "describe_log_streams"}

\* GroupAbsent with a missing group passed over
GroupAbsent_Ignored(g) == FALSE

\* client.py:113-115: not group_exists
GroupAbsent(g) == g = "missing"

\* client.py:94,98: seconds to milliseconds
MillisPerSecond == 1000

\* parse_time_to_millis(log_line) at clock reading t
parse_time_to_millis(l, t) ==
    IF l.time = NoTime THEN t * MillisPerSecond ELSE l.time * MillisPerSecond

\* str.strip(): the line without the white space around it
strip(l) == [l EXCEPT !.pad = FALSE]

\* client.py:141-142: the event made of a line at clock reading t
LogEvent(l, t) == [timestamp |-> parse_time_to_millis(l, t), message |-> strip(l)]

\* client.py:139-142: the events of the lines q, in the order of the lines
RECURSIVE LogEvents(_, _)
LogEvents(q, t) ==
    IF q = <<>> THEN <<>> ELSE <<LogEvent(Head(q), t)>> \o LogEvents(Tail(q), t)

\* client.py:140: the lines that are not blank
RECURSIVE NonBlank(_)
NonBlank(q) ==
    IF q = <<>> THEN <<>>
    ELSE IF Head(q).blank THEN NonBlank(Tail(q))
         ELSE <<Head(q)>> \o NonBlank(Tail(q))

\* client.py:150: list.sort(key=timestamp), a stable sort: e goes before the
\* first event of q that is later than it
RECURSIVE InsertByTs(_, _)
InsertByTs(e, q) ==
    IF q = <<>> THEN <<e>>
    ELSE IF e.timestamp < Head(q).timestamp THEN <<e>> \o q
         ELSE <<Head(q)>> \o InsertByTs(e, Tail(q))

\* SortByTs without the sort
SortByTs_Unsorted(q) == q

RECURSIVE SortByTs(_)
SortByTs(q) ==
    IF q = <<>> THEN <<>>
    ELSE InsertByTs(q[Len(q)], SortByTs(SubSeq(q, 1, Len(q) - 1)))

\* client.py:132-153 and 159-162: read the buffer and build the events;
\* return when there is none, else call put_log_events
CwPrepare(t, c, buf) ==
    IF Len(buf) = 0
    THEN /\ output' = clear_output(buf)
         /\ cyc' = [cyc EXCEPT ![t] = Ended("done", c, "empty")]
    ELSE IF NonBlank(buf) = <<>>
    THEN /\ output' = buf
         /\ cyc' = [cyc EXCEPT ![t] = Ended("done", c, "no_events")]
    ELSE /\ output' = buf
         /\ cyc' = [cyc EXCEPT ![t] =
                       [c EXCEPT !.pc = "cw_put",
                                 !.calls = c.calls \cup {"put_log_events"},
                                 !.processed_logs = buf,
                                 !.log_events =
                                     SortByTs(LogEvents(NonBlank(buf), now))]]

\* client.py:110-146: describe_log_groups returns or raises; unless the
\* function has returned or raised, describe_log_streams (and
\* create_log_stream) return or raise; then the buffer is read.  None of the
\* calls touches the process's state, so they are one step.
CwDescribe(t) ==
    /\ cyc[t].pc = "cw_describe"
    /\ \E g \in GroupOutcomes, r \in StreamOutcomes :
          LET c == [cyc[t] EXCEPT !.group = g, !.calls = {"describe_log_groups"}]
              d == [c EXCEPT !.calls = StreamCalls]
          IN CASE GroupAbsent(g) ->
                    /\ cyc' = [cyc EXCEPT ![t] = Ended("done", c, "group_missing")]
                    /\ output' = output
               [] g = "BotoCoreError" ->
                    /\ cyc' = [cyc EXCEPT ![t] = Ended("raised", c, "BotoCoreError")]
                    /\ output' = output
               [] r = "ClientError" ->
                    /\ cyc' = [cyc EXCEPT ![t] = Ended("done", d, "stream_error")]
                    /\ output' = output
               [] r = "BotoCoreError" ->
                    /\ cyc' = [cyc EXCEPT ![t] = Ended("raised", d, "BotoCoreError")]
                    /\ output' = output
               [] OTHER -> CwPrepare(t, d, output)
    /\ UNCHANGED <<now, timers, spawned, healthy, last_sent_file,
                   enable_cloudwatch_forwarding, target_endpoint,
                   send_logs_to, healthz, loki,
                   returned, delivered>>

\* what put_log_events does
PutOutcomes == {"ok", "ClientError", "BotoCoreError"}

\* client.py:148-158: the health flag after put_log_events
HealthAfterPut(h, r) == h

\* FileAfterPut with the checkpoint written also when put_log_events raises
FileAfterPut_OnFailureToo(f, r, last_epoch, io) ==
    update_last_seen_ts(f, last_epoch, io)

\* client.py:148-158: the checkpoint file after put_log_events
FileAfterPut(f, r, last_epoch, io) ==
    IF r = "ok" THEN update_last_seen_ts(f, last_epoch, io) ELSE f

\* client.py:148-162: put_log_events returns or raises; then clear_output()
CwPutResponse(t) ==
    /\ cyc[t].pc = "cw_put"
    /\ \E r \in PutOutcomes, io \in WriteOutcomes :
          /\ healthy' = HealthAfterPut(healthy, r)
          /\ last_sent_file' = FileAfterPut(last_sent_file, r, cyc[t].last_epoch, io)
          /\ delivered' = IF r = "ok"
                          THEN delivered \cup Range(NonBlank(cyc[t].processed_logs))
                          ELSE delivered
          /\ cyc' = [cyc EXCEPT ![t] =
                        Ended("done",
                              [cyc[t] EXCEPT !.io = IF r = "ok" THEN io ELSE "none"],
                              IF r = "ok" THEN "sent" ELSE "put_failed")]
    /\ output' = clear_output(output)
    /\ UNCHANGED <<now, timers, spawned,
                   enable_cloudwatch_forwarding, target_endpoint,
                   send_logs_to, healthz, loki, returned>>

(***************************************************************************)
(* The program.                                                            *)
(***************************************************************************)
Next ==
    \/ Advance
    \/ TimerReschedule
    \/ TimerCycle
    \/ \E t \in Cycles : Start(t)
    \/ \E t \in Cycles : GetResponse(t)
    \/ \E t \in Cycles : PostResponse(t)
    \/ \E t \in Cycles : CwDescribe(t)
    \/ \E t \in Cycles : CwPutResponse(t)

Spec == Init /\ [][Next]_vars

(***************************************************************************)
(* GET /healthz.  The handler runs on the web server's threads, at any     *)
(* time between the steps of the cycles.                                   *)
(***************************************************************************)
\* health_check(), client.py:40-47: the answer the client gets.  The log
\* line of the healthy branch calls read_last_sent_ts(); an exception of it
\* leaves the handler and the server answers 500 Internal Server Error.
health_check(h, f) ==
    IF h
    THEN IF read_last_sent_ts_raises(f) # "none"
         THEN "500 Internal Server Error"
         ELSE "200 healthy"
    ELSE "500 Error connecting to Loki."

HealthCheck ==
    /\ healthz' = health_check(healthy, last_sent_file)
    /\ UNCHANGED <<now, timers, spawned, cyc, healthy, output, last_sent_file,
                   enable_cloudwatch_forwarding, target_endpoint, send_logs_to,
                   loki, returned, delivered>>

NextHealth ==
    \/ Next
    \/ HealthCheck

SpecHealth == Init /\ [][NextHealth]_vars

(***************************************************************************)
(* Properties.                                                             *)
(***************************************************************************)
Running(c) == c.pc \notin {"idle", "done", "raised"}
Forwarding(c) == c.pc \in {"post", "cw_describe", "cw_put"}
GetFailed(c) == c.resp \in {"500", "exception"}

\* t takes a step in which the forwarder it called returns
ForwardReturns(t) ==
    /\ Running(cyc[t])
    /\ cyc'[t].pc = "done"
    /\ cyc'[t].fwd # "none"

\* C1: every value written to the checkpoint file is greater than or equal
\* to the value the file held immediately before the write, also when cycles
\* overlap.
C1_CheckpointMonotone ==
    [][(last_sent_file.kind = "int" /\ last_sent_file'.kind = "int")
          => last_sent_file'.val >= last_sent_file.val]_vars

\* C2: whenever the checkpoint file holds c, every (non-blank) line the
\* backend returned for a sub-window ending at or before c has been handed to
\* the sink in a delivery that succeeded.
C2_NoLineLost ==
    last_sent_file.kind = "int" =>
        \A r \in returned :
            (r.end <= last_sent_file.val /\ ~r.e.blank) => r.e \in delivered

\* C3: when a forward operation (send_logs or send_logs_to_cloudwatch)
\* returns, whatever its outcome, the buffer is empty.
C3_BufferEmptyAfterForward ==
    [][\A t \in Cycles : ForwardReturns(t) => output' = <<>>]_vars

\* C4 as claimed: HTTP sink, non-empty buffer: a 200 sets the checkpoint to
\* exactly last_epoch; any other status or an exception leaves the file
\* unchanged and sets the health flag to unhealthy.
C4_Http200SetsCheckpoint ==
    [][\A t \in Cycles :
          (cyc[t].pc = "post" /\ cyc'[t].pc = "done") =>
             /\ cyc'[t].result = "sent" =>
                   last_sent_file' = FileWith(cyc[t].last_epoch)
             /\ cyc'[t].result = "send_failed" =>
                   (last_sent_file' = last_sent_file /\ healthy' = FALSE)]_vars

\* C4 amended: HTTP sink, non-empty buffer: after a 200 the checkpoint is
\* exactly last_epoch when the write of the file succeeds, the file is as it
\* was when open() fails and empty when the write fails after open(); any
\* other status or an exception leaves the file unchanged and sets the
\* health flag to unhealthy.
C4_HttpSinkCheckpoint ==
    [][\A t \in Cycles :
          (cyc[t].pc = "post" /\ cyc'[t].pc = "done") =>
             /\ cyc'[t].result \in {"sent", "send_failed"}
             /\ (cyc'[t].result = "sent" /\ cyc'[t].io = "written") =>
                   last_sent_file' = FileWith(cyc[t].last_epoch)
             /\ (cyc'[t].result = "sent" /\ cyc'[t].io = "open_error") =>
                   last_sent_file' = last_sent_file
             /\ (cyc'[t].result = "sent" /\ cyc'[t].io = "truncated") =>
                   last_sent_file' = EmptyFile
             /\ cyc'[t].result = "send_failed" =>
                   (last_sent_file' = last_sent_file /\ healthy' = FALSE)]_vars

\* C4 witness: one cycle's POST got a 200 and wrote the checkpoint it was
\* given, another cycle's POST failed.
C4_Witness ==
    \E t, u \in Cycles :
       /\ cyc[t].result = "sent" /\ cyc[t].io = "written"
       /\ cyc[u].result = "send_failed"

\* C5: the end time a non-failing poll_for_logs returns is never greater than
\* now - 60.
C5_EndWithinMargin ==
    \A t \in Cycles :
        Forwarding(cyc[t]) =>
            cyc[t].last_epoch <= get_epoch_mins_ago(now, MarginMinutes)

\* C6: when the checkpoint read is within 60 seconds of now, poll_for_logs
\* sends no query, leaves the buffer unchanged and returns the checkpoint it
\* read.
C6_NoLoopReturnsCheckpoint ==
    [][\A t \in Cycles :
          (/\ cyc[t].pc = "start"
           /\ ~LoopCondition(read_last_sent_ts(last_sent_file, now), now)
           /\ Forwarding(cyc'[t])) =>
             /\ cyc'[t].queries = 0
             /\ output' = output
             /\ cyc'[t].last_epoch = read_last_sent_ts(last_sent_file, now)]_vars

\* C7: when a sub-window query fails, the cycle ends there: no further query,
\* no forward operation, the health flag unhealthy, the buffer (with the
\* lines of earlier sub-windows), the checkpoint file and the deliveries as
\* they were; and the ended cycle does nothing afterwards.
C7_FetchFailure ==
    [][\A t \in Cycles :
          /\ (cyc[t].pc = "get" /\ GetFailed(cyc'[t])) =>
                /\ cyc'[t].pc = "done"
                /\ cyc'[t].fwd = "none"
                /\ healthy' = FALSE
                /\ output' = output
                /\ last_sent_file' = last_sent_file
                /\ delivered' = delivered
          /\ (cyc[t].pc = "done" /\ GetFailed(cyc[t])) => cyc'[t] = cyc[t]]_vars

\* C7 witness: a cycle whose second query failed has ended, the line of its
\* first sub-window is in the buffer and the process is unhealthy.
C7_Witness ==
    \E t \in Cycles :
       /\ cyc[t].pc = "done" /\ GetFailed(cyc[t])
       /\ cyc[t].queries >= 2
       /\ cyc[t].fwd = "none"
       /\ output # <<>>
       /\ ~healthy

\* C8: when a forward operation returns after a delivery failure, for every
\* sink, the health flag is unhealthy.
C8_SinkFailureUnhealthy ==
    [][\A t \in Cycles :
          (ForwardReturns(t) /\ cyc'[t].result \in
               {"send_failed", "group_missing", "stream_error", "put_failed"})
             => healthy' = FALSE]_vars

\* t takes a step that completes its cycle with the fetch and the delivery
\* both successful
CycleSucceeds(t) ==
    /\ Running(cyc[t])
    /\ cyc'[t].pc = "done"
    /\ cyc'[t].result \in {"sent", "logged", "empty"}

\* C9 as claimed: the health flag goes from unhealthy to healthy only in a
\* step that completes a cycle whose fetch and delivery both succeeded.
C9_HealthyOnlyAfterSuccessfulCycle ==
    [][(~healthy /\ healthy') => \E t \in Cycles : CycleSucceeds(t)]_vars

\* C9 amended: once unhealthy, the health flag stays unhealthy until a query
\* to the backend is answered with status 200; that, and nothing else, makes
\* it healthy, whatever becomes of the delivery of the same cycle.
C9_HealthyOnlyAfterQueryOk ==
    [][(~healthy /\ healthy') =>
          \E t \in Cycles :
             /\ cyc[t].pc = "get"
             /\ cyc'[t] # cyc[t]
             /\ cyc'[t].resp = "200"]_vars

\* C9 witness: a POST has failed, which made the process unhealthy, and the
\* process is healthy again.
C9_Witness ==
    /\ healthy
    /\ \E t \in Cycles : cyc[t].result = "send_failed"

\* C10: at most one cycle is in progress.
C10_OneCycleAtATime ==
    Cardinality({t \in Cycles : Running(cyc[t])}) <= 1

\* the sink a cycle's forward operation delivers to
SinkOf(c) ==
    CASE c.fwd = "send_logs_to_cloudwatch" -> "cloudwatch"
      [] c.fwd = "send_logs" /\ target_endpoint = "LOG_ONLY" -> "log_only"
      [] c.fwd = "send_logs" -> "server"
      [] OTHER -> "none"

ReadErrors == {"OSError", "ValueError"}

\* t takes the step in which its poll_for_logs returns an end time
FetchSucceeds(t) ==
    /\ cyc[t].pc \in {"start", "get"}
    /\ cyc'[t].pc \notin {"start", "get"}
    /\ ~GetFailed(cyc'[t])
    /\ cyc'[t].result \notin ReadErrors

\* C11: after every successful fetch the cycle forwards to exactly one sink,
\* the one send_logs_to names.
C11_SinkBySetting ==
    [][\A t \in Cycles : FetchSucceeds(t) => SinkOf(cyc'[t]) = send_logs_to]_vars

\* C12: read_last_sent_ts never fails its caller: whatever the state of the
\* file it returns the persisted integer when there is one that can be read,
\* and now - 3600 otherwise.
C12_ReadNeverFails ==
    [][\A t \in Cycles :
          (cyc[t].pc = "start" /\ cyc'[t] # cyc[t]) =>
             /\ cyc'[t].result \notin ReadErrors
             /\ cyc'[t].pc = "get" =>
                   cyc'[t].read_ts =
                      IF last_sent_file.kind = "int"
                      THEN last_sent_file.val
                      ELSE now - LookbackMinutes * SecondsPerMinute]_vars

\* C13: when a write of the checkpoint fails with an I/O error, a following
\* read returns the value that was stored before.
C13_FailedWriteKeepsCheckpoint ==
    [][\A t \in Cycles :
          (/\ Running(cyc[t])
           /\ cyc'[t].io \in {"open_error", "truncated"}
           /\ last_sent_file.kind = "int") =>
             /\ read_last_sent_ts_raises(last_sent_file') = "none"
             /\ read_last_sent_ts(last_sent_file', now) = last_sent_file.val]_vars

\* C14: no error escapes poll_and_send_logs to the timer thread.
C14_NoErrorEscapes ==
    \A t \in Cycles : cyc[t].pc # "raised"

\* C15: the n-th cycle (n = 0, 1, ...) starts n * T after start-up, T the
\* configured interval: the first at once, the next ones T apart.
C15_CycleStartsEveryT ==
    \A t \in Cycles :
        cyc[t].pc # "idle" => cyc[t].started = StartTime + (t - 1) * send_interval

\* the number of places of q that hold v
Count(q, v) == Cardinality({i \in 1..Len(q) : q[i] = v})

\* t takes the step that submits its batch to put_log_events
PutStarts(t) == cyc[t].pc = "cw_describe" /\ cyc'[t].pc = "cw_put"

\* the events of ev are in non-decreasing order of timestamp
NonDecreasing(ev) ==
    \A i, j \in 1..Len(ev) : i < j => ev[i].timestamp <= ev[j].timestamp

\* the time the batch gives a line: its "time=" token, else the clock, in ms
ExtractedMillis(l) == (IF l.time = NoTime THEN now ELSE l.time) * 1000

\* C16 as claimed: the batch holds exactly one event per non-blank line of
\* the buffer, the message being the line as it is in the buffer (without
\* its newline), in non-decreasing order of timestamp.
C16_BatchOfLines ==
    [][\A t \in Cycles :
          PutStarts(t) =>
             LET ev == cyc'[t].log_events
                 idx == {i \in 1..Len(output) : ~output[i].blank}
                 EventOf(l) == [timestamp |-> ExtractedMillis(l), message |-> l]
             IN /\ Len(ev) = Cardinality(idx)
                /\ \A i \in idx :
                      Count(ev, EventOf(output[i])) =
                         Cardinality({j \in idx : EventOf(output[j]) = EventOf(output[i])})
                /\ NonDecreasing(ev)]_vars

\* C16 amended: the batch holds exactly one event per non-blank line of the
\* buffer, the message being the line without the white space around it, in
\* non-decreasing order of timestamp.
C16_BatchOfStrippedLines ==
    [][\A t \in Cycles :
          PutStarts(t) =>
             LET ev == cyc'[t].log_events
                 idx == {i \in 1..Len(output) : ~output[i].blank}
                 EventOf(l) == [timestamp |-> ExtractedMillis(l),
                                message |-> [l EXCEPT !.pad = FALSE]]
             IN /\ Len(ev) = Cardinality(idx)
                /\ \A i \in idx :
                      Count(ev, EventOf(output[i])) =
                         Cardinality({j \in idx : EventOf(output[j]) = EventOf(output[i])})
                /\ NonDecreasing(ev)]_vars

\* C16 witness: a batch has been submitted for a buffer with a blank line and
\* a line with white space around it, the events in another order than the
\* lines.
C16_Witness ==
    \E t \in Cycles :
       /\ cyc[t].pc = "cw_put"
       /\ \E i \in 1..Len(cyc[t].processed_logs) : cyc[t].processed_logs[i].blank
       /\ \E i \in 1..Len(cyc[t].processed_logs) :
             cyc[t].processed_logs[i].pad /\ ~cyc[t].processed_logs[i].blank
       /\ Len(cyc[t].log_events) >= 2
       /\ cyc[t].log_events[1].message.ts > cyc[t].log_events[2].message.ts

\* C17: when describe_log_groups lists no group of the configured name, the
\* send is abandoned: no describe_log_streams, create_log_stream or
\* put_log_events call, no write of the checkpoint, and the cycle does
\* nothing afterwards.
C17_MissingGroupAbandons ==
    [][\A t \in Cycles :
          /\ (cyc[t].pc = "cw_describe" /\ cyc'[t].group = "missing") =>
                /\ cyc'[t].pc = "done"
                /\ cyc'[t].calls = {"describe_log_groups"}
                /\ cyc'[t].io = "none"
                /\ last_sent_file' = last_sent_file
          /\ (cyc[t].pc = "done" /\ cyc[t].group = "missing") =>
                cyc'[t] = cyc[t]]_vars

\* C17 witness: a cycle found the log group missing with lines in the
\* buffer, and has ended.
C17_Witness ==
    \E t \in Cycles :
       /\ cyc[t].pc = "done"
       /\ cyc[t].result = "group_missing"
       /\ output # <<>>

C19_HealthzReflectsFlag ==
    [][HealthCheck =>
          /\ healthy => healthz' = "200 healthy"
          /\ ~healthy => healthz' = "500 Error connecting to Loki."
          /\ UNCHANGED <<healthy, output, last_sent_file>>]_vars

\* C20: a forward operation that finds the buffer empty makes no call to its
\* sink (no POST, no CloudWatch call) and writes no checkpoint; the local-log
\* sink writes the checkpoint whenever the buffer was not empty.
C20_EmptyBufferNoSinkCall ==
    [][\A t \in Cycles :
          /\ (ForwardReturns(t) /\ cyc'[t].result = "empty") =>
                /\ cyc[t].pc # "post"
                /\ cyc'[t].calls = {}
                /\ cyc'[t].io = "none"
                /\ last_sent_file' = last_sent_file
          /\ (ForwardReturns(t) /\ cyc'[t].result = "logged") =>
                cyc'[t].io \in WriteOutcomes]_vars

\* the number of queries of t's fetch that were answered 200, when t takes a
\* step in which poll_for_logs returns an end time
SuccessfulQueries(t) == IF cyc[t].pc = "start" THEN 0 ELSE cyc[t].queries

\* C21: the queries of one poll_for_logs are contiguous and in increasing
\* time order: the first starts at the checkpoint read, each covers
\* [start, start + 300), each following one is sent only after a 200 and
\* starts at the end of the one before; so the end time returned is the
\* checkpoint read + 300 * (number of successful queries).
C21_ContiguousWindows ==
    [][\A t \in Cycles :
          /\ (cyc[t].pc = "start" /\ cyc'[t].pc = "get") =>
                /\ cyc'[t].read_ts =
                      IF last_sent_file.kind = "int"
                      THEN last_sent_file.val
                      ELSE now - LookbackMinutes * SecondsPerMinute
                /\ cyc'[t].start_epoch = cyc'[t].read_ts
                /\ cyc'[t].end_epoch = cyc'[t].start_epoch + 300
          /\ (cyc[t].pc = "get" /\ cyc'[t].pc = "get" /\ cyc'[t] # cyc[t]) =>
                /\ cyc'[t].resp = "200"
                /\ cyc'[t].start_epoch = cyc[t].end_epoch
                /\ cyc'[t].end_epoch = cyc'[t].start_epoch + 300
                /\ cyc'[t].queries = cyc[t].queries + 1
          /\ (FetchSucceeds(t) /\ Forwarding(cyc'[t])) =>
                cyc'[t].last_epoch =
                   cyc'[t].read_ts + 300 * SuccessfulQueries(t)]_vars

\* C22: put_log_events is called only after, in the same attempt,
\* describe_log_groups answered with the group and the log stream was found
\* or created; no other outcome of the group check leads to the call.
C22_PutOnlyAfterGroupFound ==
    \A t \in Cycles :
        cyc[t].pc = "cw_put" =>
            /\ cyc[t].group = "found"
            /\ {"describe_log_groups", "describe_log_streams"} \subseteq cyc[t].calls

(***************************************************************************)
(* Cycles run one at a time: a cycle timer that comes due while a cycle is *)
(* in progress starts its cycle when that one has ended.                   *)
(***************************************************************************)
TimerCycleSeq ==
    /\ \A t \in Cycles : ~Running(cyc[t])
    /\ TimerCycle

NextSeq ==
    \/ Advance
    \/ TimerReschedule
    \/ TimerCycleSeq
    \/ \E t \in Cycles : Start(t)
    \/ \E t \in Cycles : GetResponse(t)
    \/ \E t \in Cycles : PostResponse(t)
    \/ \E t \in Cycles : CwDescribe(t)
    \/ \E t \in Cycles : CwPutResponse(t)

SpecSeq == Init /\ [][NextSeq]_vars

\* C23: with cycles run one at a time, the batch a forward operation hands
\* to its sink is exactly the lines of the sub-windows the current cycle
\* fetched, each sub-window's lines once.
C23_BatchIsThisCyclesLines ==
    \A t \in Cycles :
        cyc[t].pc \in {"post", "cw_put"} =>
            cyc[t].processed_logs =
               SortedLines(InRange(loki, cyc[t].read_ts, cyc[t].last_epoch))

====
